---- MODULE Spec2Model ----
(***************************************************************************)
(* CoffeeCanvas (script.js): the gallery's state, its event handlers and   *)
(* the asynchronous brew (batch fetch), as a state machine.                *)
(*                                                                         *)
(* Text is a sequence of one-character strings, so that trim, toLowerCase, *)
(* includes and localeCompare are computed and not assumed.                *)
(*                                                                         *)
(* Left out: the theme (applyTheme, toggleTheme), the clipboard helper and *)
(* an item's sourceUrl/displayUrl. They are written to the page only, and  *)
(* no handler modelled here reads them.                                    *)
(***************************************************************************)
EXTENDS Integers, Sequences, FiniteSets, TLC

VARIABLES
    now,         \* the wall clock read by Date.now() and new Date(), in ms
    items,       \* let items = []
    query,       \* let query = ""
    sortMode,    \* let sortMode = "newest"
    isLoading,   \* let isLoading = false
    disabled,    \* the .disabled of the controls: the brew buttons, the clear
                 \* gallery button, the search box with its clear button,
                 \* and the sort select
    errorBox,    \* errorBox.textContent ("" when the box is hidden)
    noteTimer,   \* renderCard._t is pending (the 1000 ms "Note saved." timeout)
    favStore,    \* localStorage["coffeeCanvas:favorites"]
    notesStore,  \* localStorage["coffeeCanvas:notes"]
    view,        \* the cards of resultsGrid, as render last left them
    brews,       \* the activations of brew() suspended at "await fetch"
    net,         \* fetch() requests sent and not yet answered
    last         \* history: the handler the last step ran, if the properties
                 \* below speak of it, with the state it started from

vars == <<now, items, query, sortMode, isLoading, disabled, errorBox,
          noteTimer, favStore, notesStore, view, brews, net, last>>

(***************************** bounds **************************************)
\* The clock takes the values 0..MaxTime.
MaxTime == 1
\* Math.random().toString(16).slice(2) takes the values 1..MaxRand.
MaxRand == 1
\* The buttons' counts (1, 6 and 12 in the page) are scaled to 1..MaxCount,
\* and the count of init's brew(6) to MaxCount.
MaxCount == 2
\* No brew starts that would take the collection beyond MaxItems items.
MaxItems == MaxCount

(***************************** text ****************************************)
Lower == <<"a","b","c","d","e","f","g","h","i","j","k","l","m",
           "n","o","p","q","r","s","t","u","v","w","x","y","z">>
Upper == <<"A","B","C","D","E","F","G","H","I","J","K","L","M",
           "N","O","P","Q","R","S","T","U","V","W","X","Y","Z">>
Digit == <<"0","1","2","3","4","5","6","7","8","9">>
Punct == <<"_","-",".","!"," ","#">>

Range(s) == {s[i] : i \in DOMAIN s}

\* The order of the characters under localeCompare: punctuation, then
\* digits, then letters (a letter before its capital).
Collation == Punct \o Digit \o
             [i \in 1..52 |-> IF i % 2 = 1 THEN Lower[(i + 1) \div 2]
                                           ELSE Upper[i \div 2]]

RankOf == [c \in Range(Collation) |->
              CHOOSE i \in DOMAIN Collation : Collation[i] = c]

Rank(c) == RankOf[c]

LowerOf == [c \in Range(Collation) |->
               IF c \in Range(Upper)
               THEN Lower[CHOOSE i \in DOMAIN Upper : Upper[i] = c]
               ELSE c]

LowerChar(c) == LowerOf[c]

\* String.prototype.toLowerCase
ToLower(s) == [i \in DOMAIN s |-> LowerChar(s[i])]

IsSpace(c) == c = " "

RECURSIVE TrimLeft(_)
TrimLeft(s) ==
    IF s # <<>> /\ IsSpace(Head(s)) THEN TrimLeft(Tail(s)) ELSE s

RECURSIVE TrimRight(_)
TrimRight(s) ==
    IF s # <<>> /\ IsSpace(s[Len(s)])
    THEN TrimRight(SubSeq(s, 1, Len(s) - 1))
    ELSE s

\* String.prototype.trim
Trim(s) == TrimRight(TrimLeft(s))

\* String.prototype.includes
Includes(hay, needle) ==
    \E k \in 0..(Len(hay) - Len(needle)) :
        SubSeq(hay, k + 1, k + Len(needle)) = needle

\* function norm(str): (str ?? "").toString().toLowerCase().trim(), str
\* being a text here (never null or undefined)
norm(str) == Trim(ToLower(str))

SearchChars == Range(Lower) \cup Range(Upper) \cup Range(Digit)
                   \cup {" ", "_", "#", "-"}

\* isValidSearch with the pattern unanchored, /[a-zA-Z0-9 _#-]+/: one allowed
\* character is enough.
isValidSearchUnanchored(str) ==
    IF Len(Trim(str)) = 0 THEN TRUE
    ELSE \E i \in DOMAIN Trim(str) : Trim(str)[i] \in SearchChars

\* function isValidSearch(str)
isValidSearch(str) ==
    IF Len(Trim(str)) = 0 THEN TRUE
    ELSE \A i \in DOMAIN Trim(str) : Trim(str)[i] \in SearchChars

\* String.prototype.localeCompare: negative, zero or positive.
RECURSIVE localeCompare(_, _)
localeCompare(a, b) ==
    IF a = <<>> /\ b = <<>> THEN 0
    ELSE IF a = <<>> THEN -1
    ELSE IF b = <<>> THEN 1
    ELSE IF Rank(Head(a)) < Rank(Head(b)) THEN -1
    ELSE IF Rank(Head(a)) > Rank(Head(b)) THEN 1
    ELSE localeCompare(Tail(a), Tail(b))

(***************************** items ***************************************)
\* The milliseconds field of Date.prototype.toISOString, three digits.
Pad3(t) == <<Digit[((t \div 100) % 10) + 1], Digit[((t \div 10) % 10) + 1],
             Digit[(t % 10) + 1]>>

\* new Date().toISOString().replace(/[:.]/g, "-"). The clock stays within one
\* second, so the fields above the milliseconds are the same in every name
\* and are written "T".
IsoDashed(t) == <<"T", "-">> \o Pad3(t) \o <<"Z">>

\* function makeFilename(), the clock reading t
makeFilename(t) ==
    <<"c","o","f","f","e","e","_">> \o IsoDashed(t) \o <<".","j","p","g">>

\* function makeId(), the clock reading t and Math.random() giving r
makeId(t, r) == <<t, r>>

Times == 0..MaxTime
Rands == 1..MaxRand

\* The three clock readings of getRandomCoffeeItem, in the order it takes
\* them; the clock may tick between two of them.
Readings(t) ==
    {rd \in Times \X Times \X Times :
        /\ rd[1] = t
        /\ rd[2] \in {rd[1], rd[1] + 1}
        /\ rd[3] \in {rd[2], rd[2] + 1}}

\* function getRandomCoffeeItem(), after the probe has answered
getRandomCoffeeItem(rd, r) ==
    [id |-> makeId(rd[1], r), filename |-> makeFilename(rd[2]), addedAt |-> rd[3]]

(***************************** storage *************************************)
\* A stored text is absent (getItem gives null), text JSON.parse rejects,
\* the text "null", or the JSON text of a map; v is the map of the last.
Stored(k, empty) == [k |-> k, v |-> empty]

\* JSON.stringify(map)
Stringify(map) == [k |-> "map", v |-> map]

\* function loadJSON(key, fallback), raw being localStorage.getItem(key):
\* the value returned, null |-> TRUE when it is JavaScript's null.
loadJSON(raw, fallback) ==
    IF raw.k = "absent" THEN [null |-> FALSE, v |-> fallback]
    ELSE IF raw.k = "garbage" THEN [null |-> FALSE, v |-> fallback]
    ELSE IF raw.k = "null" THEN [null |-> TRUE, v |-> fallback]
    ELSE [null |-> FALSE, v |-> raw.v]

\* The favorites map { [id]: true } is the set of its keys; the notes map
\* { [id]: "text" } is a function on its keys.
NoFavorites == {}
NoNotes == <<>>

getFavoritesMap(fs) == loadJSON(fs, NoFavorites)

getNotesMap(ns) == loadJSON(ns, NoNotes)

\* notes[id] || "" on a map that is not null
NoteOf(map, id) == IF id \in DOMAIN map THEN map[id] ELSE <<>>

\* function toggleFavorite(id) on the map read: the map it stores
ToggledFavorites(fav, id) == IF id \in fav THEN fav \ {id} ELSE fav \cup {id}

\* function setNote(id, note) on the map read: the map it stores
NotesWith(notes, id, note) ==
    IF Trim(note) # <<>>
    THEN [x \in DOMAIN notes \cup {id} |-> IF x = id THEN Trim(note) ELSE notes[x]]
    ELSE [x \in DOMAIN notes \ {id} |-> notes[x]]

(***************************** search and sort *****************************)
\* function applySearch(list, q): threw |-> TRUE when notes[it.id] is read
\* from null; alias |-> TRUE when the array returned is list itself.
applySearch(list, q, ns) ==
    IF norm(q) = <<>> THEN [threw |-> FALSE, alias |-> TRUE, out |-> list]
    ELSE IF list # <<>> /\ getNotesMap(ns).null
    THEN [threw |-> TRUE, alias |-> FALSE, out |-> <<>>]
    ELSE [threw |-> FALSE, alias |-> FALSE,
          out |-> SelectSeq(list, LAMBDA it :
                     \/ Includes(norm(it.filename), norm(q))
                     \/ Includes(norm(NoteOf(getNotesMap(ns).v, it.id)), norm(q)))]

FavBit(fav, id) == IF id \in fav THEN 1 ELSE 0

\* Compare with the "za" comparator written like the "az" one.
CompareZaLikeAz(mode, fav, a, b) ==
    IF mode = "newest" THEN b.addedAt - a.addedAt
    ELSE IF mode = "az" THEN localeCompare(a.filename, b.filename)
    ELSE IF mode = "za" THEN localeCompare(a.filename, b.filename)
    ELSE IF FavBit(fav, b.id) # FavBit(fav, a.id)
         THEN FavBit(fav, b.id) - FavBit(fav, a.id)
         ELSE b.addedAt - a.addedAt

\* The comparators applySort hands to Array.prototype.sort.
Compare(mode, fav, a, b) ==
    IF mode = "newest" THEN b.addedAt - a.addedAt
    ELSE IF mode = "az" THEN localeCompare(a.filename, b.filename)
    ELSE IF mode = "za" THEN localeCompare(b.filename, a.filename)
    ELSE IF FavBit(fav, b.id) # FavBit(fav, a.id)
         THEN FavBit(fav, b.id) - FavBit(fav, a.id)
         ELSE b.addedAt - a.addedAt

\* Array.prototype.sort is stable: x, which followed every element of the
\* sorted s, goes before the first element that compares greater than it.
RECURSIVE Insert(_, _, _, _)
Insert(x, s, mode, fav) ==
    IF s = <<>> THEN <<x>>
    ELSE IF Compare(mode, fav, Head(s), x) <= 0
    THEN <<Head(s)>> \o Insert(x, Tail(s), mode, fav)
    ELSE <<x>> \o s

RECURSIVE StableSort(_, _, _)
StableSort(s, mode, fav) ==
    IF s = <<>> THEN <<>>
    ELSE Insert(s[Len(s)], StableSort(SubSeq(s, 1, Len(s) - 1), mode, fav),
                mode, fav)

KnownModes == {"newest", "az", "za", "fav"}

\* function applySort(list, mode): out is the array returned, list the
\* argument array as the call leaves it (out = [...list] is a copy).
applySort(list, mode, fav) ==
    [out  |-> IF mode \in KnownModes THEN StableSort(list, mode, fav) ELSE list,
     list |-> list]

(***************************** rendering ***********************************)
\* function renderCard(item): what the card shows
renderCard(item, fav, notes) ==
    [item |-> item, fav |-> item.id \in fav, note |-> NoteOf(notes, item.id)]

\* function render(), with the state it reads: the cards it leaves in
\* resultsGrid, whether it threw, and the items array as it leaves it (the
\* array applySort is handed is items itself when the query is empty).
render(its, q, mode, fs, ns, old) ==
    LET fav      == getFavoritesMap(fs)
        notes    == getNotesMap(ns)
        filtered == applySearch(its, q, ns)
        sorted   == applySort(filtered.out, mode, fav.v)
        after    == IF filtered.alias THEN sorted.list ELSE its
    IN  IF fav.null                       \* Object.keys(null)
        THEN [view |-> old, threw |-> TRUE, items |-> its]
        ELSE IF filtered.threw            \* notes[it.id] of null
        THEN [view |-> old, threw |-> TRUE, items |-> its]
        ELSE IF sorted.out = <<>>         \* emptyState
        THEN [view |-> <<>>, threw |-> FALSE, items |-> after]
        ELSE IF notes.null                \* getNote of the first card
        THEN [view |-> <<>>, threw |-> TRUE, items |-> after]
        ELSE [view  |-> [i \in DOMAIN sorted.out |->
                            renderCard(sorted.out[i], fav.v, notes.v)],
              threw |-> FALSE, items |-> after]

(***************************** messages ************************************)
MsgNone          == ""
MsgInvalidSearch == "Invalid input: use letters, numbers, spaces, -, _, or # only."
MsgInvalidCount  == "Invalid request: brew count must be greater than 0."
MsgFailedFetch   == "Failed API call: Failed to fetch"
MsgFailedRender  == "Failed API call: Cannot convert undefined or null to object"
MsgNoteSaved     == "Note saved."
MsgImageFailed   == "Image failed to load. Try brewing again (network may be unstable)."

\* setLoading without the lines that disable the controls.
setLoadingFlagOnly(loading) ==
    [isLoading |-> loading,
     disabled  |-> [brew |-> FALSE, clear |-> FALSE, search |-> FALSE,
                    sort |-> FALSE]]

\* function setLoading(loading): isLoading and the controls' disabled
setLoading(loading) ==
    [isLoading |-> loading,
     disabled  |-> [brew |-> loading, clear |-> loading, search |-> loading,
                    sort |-> loading]]

(***************************** counts *************************************)
\* A count handed to brew: a number (x2 is twice its value, so that halves
\* are counts too), NaN, or a string.
Num(n)   == [type |-> "number", x2 |-> 2 * n]
Half(h)  == [type |-> "number", x2 |-> h]
NaN      == [type |-> "NaN", x2 |-> 0]
Str      == [type |-> "string", x2 |-> 0]

(***************************** history *************************************)
\* The handler a step ran (ev), the state it started from, for a brew the
\* collection when brew was called (items) and the items fetched, and for
\* a search the text typed.
NoEvent ==
    [ev |-> "none", count |-> Num(0), batch |-> <<>>, text |-> <<>>,
     items |-> <<>>, view |-> <<>>, query |-> <<>>, sortMode |-> "",
     loading |-> FALSE]

\* brew(count) ended (ev says how): the collection it was called on and the
\* items it had fetched.
BrewEvent(ev, count, batch, before) ==
    [NoEvent EXCEPT !.ev = ev, !.count = count, !.batch = batch, !.items = before]

\* A handler that refused its input ran, from this state.
RefusalEvent(ev) ==
    [NoEvent EXCEPT !.ev = ev, !.items = items, !.view = view, !.query = query,
                    !.sortMode = sortMode, !.loading = isLoading]

(***************************** brew ****************************************)
\* typeof count !== "number" || count <= 0   (typeof NaN is "number", and
\* NaN <= 0 is false)
Refused(count) ==
    \/ count.type = "string"
    \/ count.type = "number" /\ count.x2 <= 0

\* i < count, the test of fetchBatch's loop (false for NaN)
LoopRuns(i, count) == count.type = "number" /\ 2 * i < count.x2

\* The items the loop fetches for count: the least i with ~(i < count).
Rounds(count) == IF count.type = "number" /\ count.x2 > 0
                 THEN (count.x2 + 1) \div 2 ELSE 0

\* fetchBatch starting every round-trip at once (Promise.all over the batch).
IssueAll(i, count) == IF i = 0 THEN Rounds(count) ELSE 0

\* The round-trips fetchBatch starts before it next suspends: the loop
\* awaits each getRandomCoffeeItem() before it tests i < count again.
Issue(i, count) == IF LoopRuns(i, count) THEN 1 ELSE 0

\* items.push(...batch) in place of unshift.
Push(batch, its) == its \o batch

\* items.unshift(...batch)
Unshift(batch, its) == batch \o its

\* fetchBatch pushing onto items itself: what was fetched before the throw
\* stays.
AfterCatchKeepsFetched(b, its) == b.out \o its

\* The collection after the catch of a batch whose fetch threw: the batch
\* (b.out) was local to fetchBatch and is dropped.
AfterCatch(b, its) == its

\* setLoading(false) as the last statement of the try block, not in finally.
FinallyInTryOnly(threw) == setLoading(threw)

\* finally { setLoading(false) }, threw telling whether the try block threw
Finally(threw) == setLoading(FALSE)

Remove(s, k) == SubSeq(s, 1, k - 1) \o SubSeq(s, k + 1, Len(s))

\* brew from "items.unshift(...batch)" to its end: batch is what fetchBatch
\* returned, box the error box and before the collection brew was called on.
BrewTail(count, batch, box, before) ==
    LET r == render(Unshift(batch, items), query, sortMode, favStore,
                    notesStore, view)
    IN  /\ items' = r.items
        /\ view' = r.view
        /\ errorBox' = IF r.threw THEN MsgFailedRender ELSE box
        /\ isLoading' = Finally(r.threw).isLoading
        /\ disabled' = Finally(r.threw).disabled
        /\ last' = BrewEvent(IF r.threw THEN "brew-renderfail" ELSE "brew-ok",
                             count, batch, before)

\* async function brew(count), up to its first suspension
brew(count) ==
    IF Refused(count)
    THEN /\ errorBox' = MsgInvalidCount
         /\ last' = RefusalEvent("brew-refused")
         /\ UNCHANGED <<now, items, query, sortMode, isLoading, disabled,
                        noteTimer, favStore, notesStore, view, brews, net>>
    ELSE IF Issue(0, count) > 0
    THEN /\ isLoading' = setLoading(TRUE).isLoading
         /\ disabled' = setLoading(TRUE).disabled
         /\ errorBox' = MsgNone
         /\ brews' = Append(brews, [count |-> count, i |-> 0, out |-> <<>>,
                                    before |-> items])
         /\ net' = net + Issue(0, count)
         /\ last' = NoEvent
         /\ UNCHANGED <<now, items, query, sortMode, noteTimer, favStore,
                        notesStore, view>>
    ELSE /\ BrewTail(count, <<>>, MsgNone, items)
         /\ UNCHANGED <<now, query, sortMode, noteTimer, favStore,
                        notesStore, brews, net>>

\* A click on brew1Btn, brew6Btn or brew12Btn.
BrewClick ==
    \E n \in 1..MaxCount :
        /\ ~disabled.brew
        /\ Len(items) + n <= MaxItems
        /\ brew(Num(n))

\* fetch() of activation k resolves: getRandomCoffeeItem returns its item,
\* fetchBatch pushes it and either starts the next round-trip or returns.
ProbeResolve(k) ==
    /\ net > 0
    /\ k \in DOMAIN brews
    /\ \E rd \in Readings(now), r \in Rands :
         LET b   == brews[k]
             out == Append(b.out, getRandomCoffeeItem(rd, r))
         IN  /\ now' = rd[3]
             /\ IF Issue(b.i + 1, b.count) > 0
                THEN /\ brews' = [brews EXCEPT ![k].i = b.i + 1, ![k].out = out]
                     /\ net' = net - 1 + Issue(b.i + 1, b.count)
                     /\ last' = NoEvent
                     /\ UNCHANGED <<items, isLoading, disabled, errorBox, view>>
                ELSE /\ brews' = Remove(brews, k)
                     /\ net' = net - 1
                     /\ BrewTail(b.count, out, errorBox, b.before)
    /\ UNCHANGED <<query, sortMode, noteTimer, favStore, notesStore>>

\* fetch() of activation k rejects: brew's catch and finally.
ProbeReject(k) ==
    /\ net > 0
    /\ k \in DOMAIN brews
    /\ brews' = Remove(brews, k)
    /\ net' = net - 1
    /\ items' = AfterCatch(brews[k], items)
    /\ errorBox' = MsgFailedFetch
    /\ isLoading' = Finally(TRUE).isLoading
    /\ disabled' = Finally(TRUE).disabled
    /\ last' = BrewEvent("brew-fetchfail", brews[k].count, brews[k].out,
                       brews[k].before)
    /\ UNCHANGED <<now, query, sortMode, noteTimer, favStore, notesStore, view>>

\* function clearGallery(), a click on clearGalleryBtn
clearGallery ==
    /\ ~disabled.clear
    /\ LET r == render(<<>>, query, sortMode, favStore, notesStore, view)
       IN  items' = r.items /\ view' = r.view
    /\ last' = [NoEvent EXCEPT !.ev = "clear"]
    /\ UNCHANGED <<now, query, sortMode, isLoading, disabled, errorBox,
                   noteTimer, favStore, notesStore, brews, net>>

(***************************** the other handlers **************************)
\* What is typed into the search box, and into a card's note box.
SearchInputs == {<<>>, <<" ", "1">>, <<"A">>, <<"a", "!">>}
NoteInputs   == {<<" ", " ">>, <<" ", "A", "b">>}
SortModes    == KnownModes

\* function onSearchInput(), the box holding raw
onSearchInput(raw) ==
    /\ ~disabled.search
    /\ IF ~isValidSearch(Trim(raw))
       THEN /\ errorBox' = MsgInvalidSearch
            /\ last' = [RefusalEvent("search-rejected") EXCEPT !.text = raw]
            /\ UNCHANGED <<items, query, view>>
       ELSE LET r == render(items, Trim(raw), sortMode, favStore, notesStore, view)
            IN  /\ errorBox' = MsgNone
                /\ query' = Trim(raw)
                /\ items' = r.items
                /\ view' = r.view
                /\ last' = NoEvent
    /\ UNCHANGED <<now, sortMode, isLoading, disabled, noteTimer, favStore,
                   notesStore, brews, net>>

\* The click listener of clearSearchBtn.
clearSearch ==
    /\ ~disabled.search
    /\ query' = <<>>
    /\ errorBox' = MsgNone
    /\ LET r == render(items, <<>>, sortMode, favStore, notesStore, view)
       IN  items' = r.items /\ view' = r.view
    /\ last' = NoEvent
    /\ UNCHANGED <<now, sortMode, isLoading, disabled, noteTimer, favStore,
                   notesStore, brews, net>>

\* function onSortChange(), the select holding mode
onSortChange(mode) ==
    /\ ~disabled.sort
    /\ mode # sortMode
    /\ sortMode' = mode
    /\ LET r == render(items, query, mode, favStore, notesStore, view)
       IN  items' = r.items /\ view' = r.view
    /\ last' = NoEvent
    /\ UNCHANGED <<now, query, isLoading, disabled, errorBox, noteTimer,
                   favStore, notesStore, brews, net>>

\* The click listener of card c's favBtn: toggleFavorite(item.id), render().
\* fav[id] of null throws, and the listener ends there.
FavClick(c) ==
    /\ c \in DOMAIN view
    /\ LET fav == getFavoritesMap(favStore)
           fs  == Stringify(ToggledFavorites(fav.v, view[c].item.id))
           r   == render(items, query, sortMode, fs, notesStore, view)
       IN  IF fav.null
           THEN UNCHANGED <<favStore, items, view>>
           ELSE favStore' = fs /\ items' = r.items /\ view' = r.view
    /\ last' = NoEvent
    /\ UNCHANGED <<now, query, sortMode, isLoading, disabled, errorBox,
                   noteTimer, notesStore, brews, net>>

\* The click listener of card c's saveNoteBtn, its note box holding text.
\* notes[id] = v and delete notes[id] of null throw, and the listener ends.
SaveNoteClick(c, text) ==
    /\ c \in DOMAIN view
    /\ LET notes == getNotesMap(notesStore)
           ns    == Stringify(NotesWith(notes.v, view[c].item.id, text))
           r     == render(items, query, sortMode, favStore, ns, view)
       IN  IF notes.null
           THEN UNCHANGED <<notesStore, errorBox, noteTimer, items, view>>
           ELSE /\ notesStore' = ns
                /\ errorBox' = MsgNoteSaved
                /\ noteTimer' = TRUE
                /\ items' = r.items
                /\ view' = r.view
    /\ last' = NoEvent
    /\ UNCHANGED <<now, query, sortMode, isLoading, disabled, favStore,
                   brews, net>>

\* The timeout set by the saveNoteBtn listener: showError("").
NoteTimeout ==
    /\ noteTimer
    /\ noteTimer' = FALSE
    /\ errorBox' = MsgNone
    /\ last' = NoEvent
    /\ UNCHANGED <<now, items, query, sortMode, isLoading, disabled,
                   favStore, notesStore, view, brews, net>>

\* The error listener of a card's img.
ImgError ==
    /\ view # <<>>
    /\ errorBox' = MsgImageFailed
    /\ last' = NoEvent
    /\ UNCHANGED <<now, items, query, sortMode, isLoading, disabled,
                   noteTimer, favStore, notesStore, view, brews, net>>

\* A millisecond passes.
Tick ==
    /\ now < MaxTime
    /\ now' = now + 1
    /\ last' = NoEvent
    /\ UNCHANGED <<items, query, sortMode, isLoading, disabled, errorBox,
                   noteTimer, favStore, notesStore, view, brews, net>>

(***************************** the program *********************************)
\* What the two storage keys hold when the page loads: nothing, text that
\* does not parse, or the text "null" (left by an earlier session or by
\* another script of the origin).
InitialStores ==
    {<<"absent", "absent">>, <<"garbage", "garbage">>,
     <<"null", "absent">>, <<"absent", "null">>}

\* The state when init() returns: the listeners are set and brew(6) is
\* suspended at its first fetch.
Init ==
    /\ now = 0
    /\ items = <<>>
    /\ query = <<>>
    /\ sortMode = "newest"
    /\ isLoading = setLoading(TRUE).isLoading
    /\ disabled = setLoading(TRUE).disabled
    /\ errorBox = MsgNone
    /\ noteTimer = FALSE
    /\ \E st \in InitialStores :
         /\ favStore = Stored(st[1], NoFavorites)
         /\ notesStore = Stored(st[2], NoNotes)
    /\ view = <<>>
    /\ brews = <<[count |-> Num(MaxCount), i |-> 0, out |-> <<>>, before |-> <<>>]>>
    /\ net = Issue(0, Num(MaxCount))
    /\ last = NoEvent

Network == \E k \in DOMAIN brews : ProbeResolve(k) \/ ProbeReject(k)

Next ==
    \/ BrewClick
    \/ Network
    \/ clearGallery
    \/ \E raw \in SearchInputs : onSearchInput(raw)
    \/ clearSearch
    \/ \E mode \in SortModes : onSortChange(mode)
    \/ \E c \in DOMAIN view : FavClick(c)
    \/ \E c \in DOMAIN view, text \in NoteInputs : SaveNoteClick(c, text)
    \/ NoteTimeout
    \/ ImgError
    \/ Tick

Spec == Init /\ [][Next]_vars

\* brew as a function of its argument: a trigger wired like the three
\* buttons, with a count that is not a positive integer.
OtherCounts == {Str, Num(0), Num(-1), NaN, Half(3)}

BrewCall ==
    \E count \in OtherCounts :
        /\ ~disabled.brew
        /\ Len(items) + Rounds(count) <= MaxItems
        /\ brew(count)

NextArgs == Next \/ BrewCall

\* The page loaded with nothing stored under the two keys.
InitClean == Init /\ favStore.k = "absent" /\ notesStore.k = "absent"

SpecArgs == InitClean /\ [][NextArgs]_vars

\* The brew and what can run while a batch is in flight. The search box and
\* the sort select are left out: setLoading disables them for that time, and
\* their handlers write neither isLoading nor the controls.
NextBusy ==
    \/ BrewClick
    \/ Network
    \/ clearGallery
    \/ \E c \in DOMAIN view : FavClick(c)
    \/ \E c \in DOMAIN view, text \in NoteInputs : SaveNoteClick(c, text)
    \/ NoteTimeout
    \/ ImgError
    \/ Tick

\* fetch() settles: every request sent is answered or fails.
FairSpec == Init /\ [][NextBusy]_vars /\ WF_vars(Network)

(***************************** properties **********************************)
Reverse(s) == [i \in DOMAIN s |-> s[Len(s) + 1 - i]]

Filenames(s) == [i \in DOMAIN s |-> s[i].filename]

\* A count that is a positive integer.
IsPositiveInteger(count) ==
    count.type = "number" /\ count.x2 > 0 /\ count.x2 % 2 = 0

EndedAfterFetching == {"brew-ok", "brew-renderfail"}

AllEnabled ==
    ~disabled.brew /\ ~disabled.clear /\ ~disabled.search /\ ~disabled.sort

\* C1: when a brew ends because one of its round-trips failed, the
\* collection is the one brew was called on, whatever the batch had already
\* fetched, and the error box shows the failure.
C1_FailedBatchAddsNothing ==
    last.ev = "brew-fetchfail" =>
        /\ items = last.items
        /\ errorBox = MsgFailedFetch
        /\ errorBox # MsgNone

\* A brew has failed on its second round-trip, one item fetched.
C1_Witness == last.ev = "brew-fetchfail" /\ Len(last.batch) >= 1

\* C2: when no batch is in flight the busy state is off and the controls are
\* enabled, and every busy state is followed by one that is not busy, however
\* the brew ends.
C2_BusyAlwaysCleared ==
    /\ [](brews = <<>> => ~isLoading /\ AllEnabled)
    /\ (isLoading ~> (~isLoading /\ AllEnabled))

\* A brew whose rendering threw has ended, and the busy state is off.
C2_Witness == last.ev = "brew-renderfail" /\ ~isLoading /\ AllEnabled

\* C3: at most one batch is in flight, and while one is, the brew buttons and
\* the clear gallery button are disabled.
C3_OneBatchInFlight ==
    /\ Len(brews) <= 1
    /\ brews # <<>> => isLoading /\ disabled.brew /\ disabled.clear

\* A batch started by a button on a collection that is not empty is in
\* flight.
C3_Witness == Len(brews) = 1 /\ brews[1].before # <<>> /\ disabled.brew

\* C4: a brew(n) whose round-trips all succeeded leaves its n items, in the
\* order fetched, before the m items brew was called on; clearGallery leaves
\* the empty collection; no other step changes the collection.
C4_PrependAndClearOnly ==
    /\ [](last.ev \in EndedAfterFetching =>
            /\ IsPositiveInteger(last.count)
            /\ 2 * Len(last.batch) = last.count.x2
            /\ Len(items) = Len(last.items) + Len(last.batch)
            /\ SubSeq(items, 1, Len(last.batch)) = last.batch
            /\ SubSeq(items, Len(last.batch) + 1, Len(items)) = last.items
            /\ \A i, j \in DOMAIN last.batch :
                   i < j => last.batch[i].addedAt <= last.batch[j].addedAt)
    /\ [](last.ev = "clear" => items = <<>>)
    /\ [][items' # items => last'.ev \in EndedAfterFetching \cup {"clear"}]_vars

\* A brew has prepended its batch to a collection that was not empty.
C4_Witness ==
    last.ev = "brew-ok" /\ last.items # <<>> /\ last.batch # <<>>

\* C5: every batch in flight has exactly one round-trip outstanding, the one
\* after those that succeeded; no round-trip is outstanding otherwise, in
\* particular after a round-trip has failed.
C5_RoundTripsSequential ==
    /\ net <= 1
    /\ net = Len(brews)
    /\ \A k \in DOMAIN brews :
          /\ brews[k].i = Len(brews[k].out)
          /\ LoopRuns(brews[k].i, brews[k].count)
    /\ last.ev = "brew-fetchfail" => net = 0 /\ brews = <<>>

\* The second round-trip of a batch is outstanding, the first having
\* succeeded.
C5_Witness == net = 1 /\ Len(brews) = 1 /\ brews[1].i = 1

\* The characters the search accepts, and a text it must reject.
AllowedInSearch ==
    Range(Lower) \cup Range(Upper) \cup Range(Digit) \cup {" ", "-", "_", "#"}

Disallowed(text) ==
    Trim(text) # <<>> /\ \E i \in DOMAIN Trim(text) : Trim(text)[i] \notin AllowedInSearch

\* C6: a search text is rejected only if it holds a character that is not
\* allowed; the rejection leaves the query, the sort mode, the collection and
\* the cards shown as they were and shows the message; and no text with such
\* a character ever becomes the query.
C6_RejectedSearchChangesNothing ==
    /\ last.ev = "search-rejected" =>
          /\ Disallowed(last.text)
          /\ query = last.query
          /\ sortMode = last.sortMode
          /\ items = last.items
          /\ view = last.view
          /\ errorBox = MsgInvalidSearch
    /\ ~Disallowed(query)

\* A text has been rejected while a query was in effect and cards shown.
C6_Witness ==
    last.ev = "search-rejected" /\ last.query # <<>> /\ view # <<>>

\* C7: brew with a count that is not a positive integer sends no round-trip
\* and ends refused, the collection, the busy flag and the cards unchanged,
\* the message shown.
C7_BadCountRefused ==
    /\ \A k \in DOMAIN brews : IsPositiveInteger(brews[k].count)
    /\ last.ev \in EndedAfterFetching \cup {"brew-fetchfail"} =>
          IsPositiveInteger(last.count)
    /\ last.ev = "brew-refused" =>
          /\ errorBox = MsgInvalidCount
          /\ items = last.items
          /\ view = last.view
          /\ isLoading = last.loading

\* C8: no two items of the collection have the same id.
C8_IdsUnique ==
    \A i, j \in DOMAIN items : i # j => items[i].id # items[j].id

SortedAz(list) == applySort(list, "az", NoFavorites).out

SortedZa(list) == applySort(list, "za", NoFavorites).out

\* The lists the sort is handed: the collection and the cards shown.
SortInputs == {items, [i \in DOMAIN view |-> view[i].item]}

\* C9 as stated: sorting the "az" result by "za" gives its exact reverse.
C9_ExactReverse ==
    \A list \in SortInputs : SortedZa(SortedAz(list)) = Reverse(SortedAz(list))

\* C9, amended: sorting the "az" result by "za" reverses the order of the
\* filenames and keeps the items of one filename in the order the "az"
\* result has them, so it is the exact reverse when no two filenames are
\* equal; and applySort leaves its argument as it was.
C9_ReverseUpToTies ==
    \A list \in SortInputs :
        LET az == SortedAz(list)
            za == SortedZa(az)
        IN  /\ Filenames(za) = Reverse(Filenames(az))
            /\ \A f \in Range(Filenames(az)) :
                   SelectSeq(za, LAMBDA it : it.filename = f)
                       = SelectSeq(az, LAMBDA it : it.filename = f)
            /\ Cardinality(Range(Filenames(list))) = Len(list) => za = Reverse(az)
            /\ \A mode \in KnownModes \cup {"other"} :
                   applySort(list, mode, NoFavorites).list = list

\* The collection holds two different items of one filename.
C9_Witness ==
    \E i, j \in DOMAIN items :
        items[i].filename = items[j].filename /\ items[i] # items[j]

\* C10: whatever the two storage keys hold, no rendering fails: no brew whose
\* round-trips all succeeded is reported as failed.
C10_CorruptStoreIsSilent ==
    last.ev # "brew-renderfail" /\ errorBox # MsgFailedRender

====
